---------------------------- MODULE Spec2Model ----------------------------
(***************************************************************************)
(* Model of the workflow harvesting tools of comfy.cursorrules:            *)
(*   tools/crawlers/github_workflow_crawler.py  (hosted-tree crawler)      *)
(*   tools/crawlers/comfyui_crawler.py          (web-page crawler)         *)
(*   tools/parse_workflow_templates.py          (metadata extraction)      *)
(*   tools/civitai_image_search.py              (catalog API client)       *)
(* Text is modelled as sequences of one-character strings so that parsing, *)
(* base64 decoding and suffix matching are computed, not assumed.          *)
(***************************************************************************)
EXTENDS Integers, Sequences, FiniteSets, Bags, TLC

VARIABLES
    pc,         \* position of the running program
    exc,        \* the exception in flight / that ended the run, or NoExc
    exitCode,   \* process exit status once the program has ended, else -1
    fs,         \* output directory: file name -> content record
    reqs,       \* HTTP requests issued so far, in order
    persistLog, \* one record per write of a workflow document, in order
    tree,       \* hosted tree: the remote repository, node -> [parent, kind]
    file_type,  \* hosted tree: the --file-type argument
    stack,      \* hosted tree: the active process_directory calls, outermost first
    ret,        \* hosted tree: (total_files, downloaded_files) returned to main
    impl,       \* extraction: which extract_workflow_from_image is applied
    image,      \* extraction: the decoded image container handed to it
    result,     \* extraction: outcome of the call
    site,       \* web page: the pages the site serves
    example_pages,     \* web page: crawl_images' list of sub-pages to visit
    page_i,            \* web page: position of the loop over example_pages
    image_urls,        \* web page: the discovery list, duplicates included
    pending,           \* web page: what the running loop has still to iterate, a bag
    attempts,          \* web page: calls of download_image, a bag of URLs
    gets,              \* web page: GET requests sent, a bag of URLs
    downloaded_images, \* web page: the paths crawl_images returns, a bag
    sleeps,            \* web page: calls of time.sleep made so far
    environ,    \* model search: the value of CIVITAI_API_KEY, PyNone if unset
    args,       \* model search: the parsed command line
    api_key,    \* model search: main's api_key
    results,    \* model search: the model whose files display_results walks
    file_k      \* model search: position of the loop over the files

vars == <<pc, exc, exitCode, fs, reqs, persistLog, tree, file_type, stack, ret,
          impl, image, result, site, example_pages, page_i, image_urls, pending,
          attempts, gets, downloaded_images, sleeps, environ, args, api_key,
          results, file_k>>

(***************************************************************************)
(* Characters and text                                                     *)
(***************************************************************************)

\* The printable ASCII characters, code 32 (space) to 126 (~), in order
\* (code 96, the backquote, is written <bq>).
Printable ==
  << " ", "!", "\"", "#", "$", "%", "&", "'", "(", ")", "*", "+",
     ",", "-", ".", "/", "0", "1", "2", "3", "4", "5", "6", "7",
     "8", "9", ":", ";", "<", "=", ">", "?", "@", "A", "B", "C",
     "D", "E", "F", "G", "H", "I", "J", "K", "L", "M", "N", "O",
     "P", "Q", "R", "S", "T", "U", "V", "W", "X", "Y", "Z", "[",
     "\\", "]", "^", "_", "<bq>", "a", "b", "c", "d", "e", "f", "g",
     "h", "i", "j", "k", "l", "m", "n", "o", "p", "q", "r", "s",
     "t", "u", "v", "w", "x", "y", "z", "{", "|", "}", "~" >>

\* bytes.decode: the character of a byte below 128 (control characters other
\* than tab, newline and carriage return are one opaque character).
Chr(b) ==
  IF b >= 32 /\ b <= 126 THEN Printable[b - 31]
  ELSE IF b = 9 THEN "\t"
  ELSE IF b = 10 THEN "\n"
  ELSE IF b = 13 THEN "\r"
  ELSE "<ctl>"

\* str.lower() on one character.
LowerChar(c) ==
  IF \E i \in 34..59 : Printable[i] = c
  THEN Printable[(CHOOSE i \in 34..59 : Printable[i] = c) + 32]
  ELSE c

\* str.lower()
Lower(s) == [i \in 1..Len(s) |-> LowerChar(s[i])]

\* str.startswith(prefix)
StartsWith(s, prefix) ==
  Len(prefix) <= Len(s) /\ SubSeq(s, 1, Len(prefix)) = prefix

\* str.endswith(suffix)
EndsWith(s, suffix) ==
  Len(suffix) <= Len(s) /\ SubSeq(s, Len(s) - Len(suffix) + 1, Len(s)) = suffix

(***************************************************************************)
(* Python values produced by json.loads                                    *)
(***************************************************************************)

PyNone == [tag |-> "None", n |-> 0, s |-> <<>>, v |-> <<>>]
PyBool(b) == [tag |-> "bool", n |-> IF b THEN 1 ELSE 0, s |-> <<>>, v |-> <<>>]
PyInt(k) == [tag |-> "int", n |-> k, s |-> <<>>, v |-> <<>>]
PyStr(cs) == [tag |-> "str", n |-> 0, s |-> cs, v |-> <<>>]
PyList(vs) == [tag |-> "list", n |-> 0, s |-> <<>>, v |-> vs]
\* a dict is its items in insertion order, each a pair <<key, value>>
PyDict(kvs) == [tag |-> "dict", n |-> 0, s |-> <<>>, v |-> kvs]

\* Python truth value testing (if x:)
Truthy(x) ==
  CASE x.tag = "None" -> FALSE
    [] x.tag = "bool" -> x.n = 1
    [] x.tag = "int" -> x.n # 0
    [] x.tag = "str" -> x.s # <<>>
    [] OTHER -> x.v # <<>>

\* dict[key] = value: replaces the value of an existing key, else appends
DictSet(kvs, key, val) ==
  IF \E i \in 1..Len(kvs) : kvs[i][1] = key
  THEN [i \in 1..Len(kvs) |-> IF kvs[i][1] = key THEN <<key, val>> ELSE kvs[i]]
  ELSE Append(kvs, <<key, val>>)

(***************************************************************************)
(* json.loads: a recursive-descent parser for JSON text.  Supported:       *)
(* null, true, false, integers, strings with the simple escapes, arrays    *)
(* and objects, with whitespace.  Fractions, exponents and \u escapes do   *)
(* not occur in the payloads of this model and are rejected.               *)
(***************************************************************************)

JsonWs == {" ", "\t", "\n", "\r"}
Digits == <<"0", "1", "2", "3", "4", "5", "6", "7", "8", "9">>
IsDigit(c) == \E d \in 1..10 : Digits[d] = c
DigitVal(c) == (CHOOSE d \in 1..10 : Digits[d] = c) - 1

PFail == [ok |-> FALSE, val |-> PyNone, pos |-> 0]
POk(val, pos) == [ok |-> TRUE, val |-> val, pos |-> pos]

RECURSIVE SkipWs(_, _)
SkipWs(s, i) ==
  IF i <= Len(s) /\ s[i] \in JsonWs THEN SkipWs(s, i + 1) ELSE i

HasLit(s, i, lit) ==
  i + Len(lit) - 1 <= Len(s) /\ SubSeq(s, i, i + Len(lit) - 1) = lit

\* digits from position i on: [val, pos] with pos the first non-digit
RECURSIVE ScanDigits(_, _, _)
ScanDigits(s, i, acc) ==
  IF i <= Len(s) /\ IsDigit(s[i])
  THEN ScanDigits(s, i + 1, acc * 10 + DigitVal(s[i]))
  ELSE [val |-> acc, pos |-> i]

\* -?(0|[1-9][0-9]*) ; s[i] is "-" or a digit
ParseNumber(s, i) ==
  LET neg == s[i] = "-"
      j == IF neg THEN i + 1 ELSE i
  IN  IF j > Len(s) \/ ~IsDigit(s[j]) THEN PFail
      ELSE LET d == IF s[j] = "0" THEN [val |-> 0, pos |-> j + 1]
                    ELSE ScanDigits(s, j, 0)
           IN  IF d.pos <= Len(s) /\ s[d.pos] \in {".", "e", "E"} THEN PFail
               ELSE POk(PyInt(IF neg THEN 0 - d.val ELSE d.val), d.pos)

\* the body of a string literal; i is the position after the opening quote
RECURSIVE ScanString(_, _, _)
ScanString(s, i, acc) ==
  IF i > Len(s) THEN PFail
  ELSE IF s[i] = "\"" THEN POk(PyStr(acc), i + 1)
  ELSE IF s[i] \in {"\t", "\n", "\r", "<ctl>"} THEN PFail
  ELSE IF s[i] = "\\"
       THEN IF i + 1 > Len(s) THEN PFail
            ELSE IF s[i + 1] \in {"\"", "\\", "/"}
                 THEN ScanString(s, i + 2, Append(acc, s[i + 1]))
            ELSE IF s[i + 1] = "n" THEN ScanString(s, i + 2, Append(acc, "\n"))
            ELSE IF s[i + 1] = "t" THEN ScanString(s, i + 2, Append(acc, "\t"))
            ELSE IF s[i + 1] = "r" THEN ScanString(s, i + 2, Append(acc, "\r"))
            ELSE IF s[i + 1] \in {"b", "f"}
                 THEN ScanString(s, i + 2, Append(acc, "<ctl>"))
            ELSE PFail
  ELSE ScanString(s, i + 1, Append(acc, s[i]))

RECURSIVE ParseValue(_, _), ParseItems(_, _, _), ParseMembers(_, _, _)

\* one JSON value starting at position i (leading whitespace skipped by the
\* caller)
ParseValue(s, i) ==
  IF i > Len(s) THEN PFail
  ELSE IF HasLit(s, i, <<"n", "u", "l", "l">>) THEN POk(PyNone, i + 4)
  ELSE IF HasLit(s, i, <<"t", "r", "u", "e">>) THEN POk(PyBool(TRUE), i + 4)
  ELSE IF HasLit(s, i, <<"f", "a", "l", "s", "e">>) THEN POk(PyBool(FALSE), i + 5)
  ELSE IF s[i] = "-" \/ IsDigit(s[i]) THEN ParseNumber(s, i)
  ELSE IF s[i] = "\"" THEN ScanString(s, i + 1, <<>>)
  ELSE IF s[i] = "["
       THEN LET j == SkipWs(s, i + 1)
            IN  IF j <= Len(s) /\ s[j] = "]" THEN POk(PyList(<<>>), j + 1)
                ELSE ParseItems(s, j, <<>>)
  ELSE IF s[i] = "{"
       THEN LET j == SkipWs(s, i + 1)
            IN  IF j <= Len(s) /\ s[j] = "}" THEN POk(PyDict(<<>>), j + 1)
                ELSE ParseMembers(s, j, <<>>)
  ELSE PFail

\* the items of a non-empty array; i is the start of the next item
ParseItems(s, i, acc) ==
  LET r == ParseValue(s, i)
  IN  IF ~r.ok THEN PFail
      ELSE LET j == SkipWs(s, r.pos)
           IN  IF j > Len(s) THEN PFail
               ELSE IF s[j] = "]" THEN POk(PyList(Append(acc, r.val)), j + 1)
               ELSE IF s[j] = ","
                    THEN ParseItems(s, SkipWs(s, j + 1), Append(acc, r.val))
               ELSE PFail

\* the members of a non-empty object; i is the start of the next key
ParseMembers(s, i, acc) ==
  IF i > Len(s) \/ s[i] # "\"" THEN PFail
  ELSE LET k == ScanString(s, i + 1, <<>>)
       IN  IF ~k.ok THEN PFail
           ELSE LET c == SkipWs(s, k.pos)
                IN  IF c > Len(s) \/ s[c] # ":" THEN PFail
                    ELSE LET r == ParseValue(s, SkipWs(s, c + 1))
                         IN  IF ~r.ok THEN PFail
                             ELSE LET j == SkipWs(s, r.pos)
                                      nacc == DictSet(acc, k.val.s, r.val)
                                  IN  IF j > Len(s) THEN PFail
                                      ELSE IF s[j] = "}"
                                           THEN POk(PyDict(nacc), j + 1)
                                      ELSE IF s[j] = ","
                                           THEN ParseMembers(s, SkipWs(s, j + 1), nacc)
                                      ELSE PFail

\* json.loads(s): ok = FALSE stands for json.JSONDecodeError
JsonLoads(s) ==
  LET r == ParseValue(s, SkipWs(s, 1))
  IN  IF r.ok /\ SkipWs(s, r.pos) = Len(s) + 1 THEN r ELSE PFail

(***************************************************************************)
(* base64.b64decode(data) on a str, as binascii.a2b_base64 computes it in  *)
(* its default non-strict mode.                                            *)
(***************************************************************************)

B64Alphabet ==
  << "A", "B", "C", "D", "E", "F", "G", "H", "I", "J", "K", "L", "M",
     "N", "O", "P", "Q", "R", "S", "T", "U", "V", "W", "X", "Y", "Z",
     "a", "b", "c", "d", "e", "f", "g", "h", "i", "j", "k", "l", "m",
     "n", "o", "p", "q", "r", "s", "t", "u", "v", "w", "x", "y", "z",
     "0", "1", "2", "3", "4", "5", "6", "7", "8", "9", "+", "/" >>

\* the 6-bit value of a base64 digit; 64 for any other character
B64Val(c) ==
  IF \E i \in 1..64 : B64Alphabet[i] = c
  THEN (CHOOSE i \in 1..64 : B64Alphabet[i] = c) - 1
  ELSE 64

\* the decoding loop: quad is the position in the current group of four
\* digits, left the bits carried over, pads the '=' seen in a row, out the
\* bytes produced.  ok = FALSE stands for binascii.Error.
RECURSIVE A2bBase64(_, _, _, _, _, _)
A2bBase64(s, i, quad, left, pads, out) ==
  IF i > Len(s)
  THEN IF quad # 0 THEN [ok |-> FALSE, bytes |-> <<>>]
       ELSE [ok |-> TRUE, bytes |-> out]
  ELSE IF s[i] = "="
       THEN IF quad >= 2 /\ quad + pads + 1 >= 4
            THEN [ok |-> TRUE, bytes |-> out]
            ELSE A2bBase64(s, i + 1, quad, left,
                           IF quad >= 2 THEN pads + 1 ELSE pads, out)
  ELSE IF B64Val(s[i]) >= 64
       THEN A2bBase64(s, i + 1, quad, left, pads, out)
  ELSE LET c == B64Val(s[i])
       IN  CASE quad = 0 -> A2bBase64(s, i + 1, 1, c, 0, out)
             [] quad = 1 -> A2bBase64(s, i + 1, 2, c % 16, 0,
                                      Append(out, (left * 4 + c \div 16) % 256))
             [] quad = 2 -> A2bBase64(s, i + 1, 3, c % 4, 0,
                                      Append(out, (left * 16 + c \div 4) % 256))
             [] OTHER -> A2bBase64(s, i + 1, 0, 0, 0,
                                   Append(out, (left * 64 + c) % 256))

\* base64.b64decode(s)
B64Decode(s) == A2bBase64(s, 1, 0, 0, 0, <<>>)

\* bytes.decode('utf-8') for byte strings in the ASCII range; a byte of 128
\* or more starts a multi-byte sequence, which the payloads of this model
\* never complete: UnicodeDecodeError (ok = FALSE).
Utf8Decode(bytes) ==
  IF \E i \in 1..Len(bytes) : bytes[i] >= 128
  THEN [ok |-> FALSE, text |-> <<>>]
  ELSE [ok |-> TRUE, text |-> [i \in 1..Len(bytes) |-> Chr(bytes[i])]]

(***************************************************************************)
(* Metadata payloads and image containers                                  *)
(***************************************************************************)

\* the JSON document {"a":1}
TextObject == <<"{", "\"", "a", "\"", ":", "1", "}">>

\* base64 of {"a":1}
TextObjectB64 == <<"e", "y", "J", "h", "I", "j", "o", "x", "f", "Q", "=", "=">>

\* the JSON document [1]
TextList == <<"[", "1", "]">>

\* base64 of [1]
TextListB64 == <<"W", "z", "F", "d">>

\* the JSON document {} (a falsy value)
TextEmptyObject == <<"{", "}">>

\* base64 of {}
TextEmptyObjectB64 == <<"e", "3", "0", "=">>

\* the JSON document null
TextNull == <<"n", "u", "l", "l">>

\* valid JSON and valid base64 at once
TextDigits == <<"1", "2", "3", "4">>

\* plain generation parameters: not JSON, not base64
TextSteps == <<"S", "t", "e", "p", "s", ":", " ", "2", "0">>

\* base64 of ABC, which is not JSON
TextB64NotJson == <<"Q", "U", "J", "D">>

\* base64 of bytes that are not UTF-8
TextB64NotUtf8 == <<"a", "b", "c", "d">>

\* base64 of {} with its padding cut off
TextBadPadding == <<"e", "3", "0">>

\* the empty string
TextEmpty == <<>>

\* the text payloads an image metadata field takes in this model
Payloads ==
  {TextObject, TextObjectB64, TextList, TextListB64,
   TextEmptyObject, TextEmptyObjectB64, TextNull, TextDigits,
   TextSteps, TextB64NotJson, TextB64NotUtf8, TextBadPadding,
   TextEmpty}

\* one auxiliary text field of an image: present in img.info or not
NoField == [present |-> FALSE, text |-> <<>>]
Field(text) == [present |-> TRUE, text |-> text]
Fields == {NoField} \cup {Field(p) : p \in Payloads}

\* what PIL.Image.open yields: the container decodes or Image.open raises;
\* info holds the auxiliary text fields the extraction looks at
CorruptImage ==
  [decodable |-> FALSE, info |-> [parameters |-> NoField, workflow |-> NoField]]
Images ==
  {CorruptImage} \cup
  {[decodable |-> TRUE, info |-> [parameters |-> p, workflow |-> w]] :
     p \in Fields, w \in Fields}

(***************************************************************************)
(* extract_workflow_from_image and try_decode_data                         *)
(***************************************************************************)

\* the outcome of a call: a returned value or an exception that escapes it
Returned(val) == [raised |-> FALSE, exc |-> "", val |-> val]
Raised(e) == [raised |-> TRUE, exc |-> e, val |-> PyNone]
NoResult == [raised |-> FALSE, exc |-> "not called", val |-> PyNone]

\* the metadata field the extraction reads: 'parameters' if the image has
\* one, else 'workflow', else workflow_data stays None
SelectWorkflowDataParametersOnly(info) ==
  IF info.parameters.present THEN info.parameters
  ELSE NoField

SelectWorkflowData(info) ==
  IF info.parameters.present THEN info.parameters
  ELSE IF info.workflow.present THEN info.workflow
  ELSE NoField

\* The body shared by the three copies of extract_workflow_from_image.
\* Every path that does not return the parsed JSON reports through the
\* module's logger: where the module defines no logger the report raises
\* NameError, inside the try block and again inside its except handler, so
\* the NameError escapes the call; otherwise None is returned.
ExtractWorkflow(img, loggerDefined) ==
  LET miss == IF loggerDefined THEN Returned(PyNone) ELSE Raised("NameError")
      data == SelectWorkflowData(img.info)
  IN  IF ~img.decodable THEN miss
      ELSE IF data.present /\ data.text # <<>> /\ JsonLoads(data.text).ok
           THEN Returned(JsonLoads(data.text).val)
           ELSE miss

\* github_workflow_crawler.extract_workflow_from_image (module logger defined)
ExtractWorkflowFromImageGithub(img) == ExtractWorkflow(img, TRUE)

\* comfyui_crawler.extract_workflow_from_image (reports with print)
ExtractWorkflowFromImageComfyui(img) == ExtractWorkflow(img, TRUE)

\* parse_workflow_templates.extract_workflow_from_image: the module never
\* defines the logger it reports to
ExtractWorkflowFromImageTemplates(img) == ExtractWorkflow(img, FALSE)

\* parse_workflow_templates.try_decode_data on a str: direct JSON, else
\* base64 then UTF-8 then JSON, else None.  No function of the program
\* calls it.
try_decode_data(data) ==
  IF JsonLoads(data).ok THEN JsonLoads(data).val
  ELSE LET b == B64Decode(data)
           t == Utf8Decode(b.bytes)
       IN  IF b.ok /\ t.ok /\ JsonLoads(t.text).ok
           THEN JsonLoads(t.text).val
           ELSE PyNone

Impls == {"github_workflow_crawler", "comfyui_crawler", "parse_workflow_templates"}

ExtractWorkflowFromImage(m, img) ==
  CASE m = "github_workflow_crawler" -> ExtractWorkflowFromImageGithub(img)
    [] m = "comfyui_crawler" -> ExtractWorkflowFromImageComfyui(img)
    [] OTHER -> ExtractWorkflowFromImageTemplates(img)

(***************************************************************************)
(* File names (pathlib) and the hosted tree                                *)
(***************************************************************************)

\* str.rfind("."): the last position of a dot, 0 if there is none
LastDot(name) ==
  IF \E i \in 1..Len(name) : name[i] = "."
  THEN CHOOSE i \in 1..Len(name) :
         name[i] = "." /\ \A j \in (i + 1)..Len(name) : name[j] # "."
  ELSE 0

\* pathlib: a name has a suffix when its last dot is neither its first nor
\* its last character
HasSuffix(name) == LastDot(name) > 1 /\ LastDot(name) < Len(name)

\* Path(name).suffix
Suffix(name) ==
  IF HasSuffix(name) THEN SubSeq(name, LastDot(name), Len(name)) ELSE <<>>

\* Path(name).stem
Stem(name) ==
  IF HasSuffix(name) THEN SubSeq(name, 1, LastDot(name) - 1) ELSE name

DotJson == <<".", "j", "s", "o", "n">>
FILE_TYPE_JSON == "json"
FILE_TYPE_IMAGE == "image"
SUPPORTED_FILE_TYPES == {FILE_TYPE_JSON, FILE_TYPE_IMAGE}
SUPPORTED_IMAGE_EXTENSIONS ==
  {<<".", "p", "n", "g">>, <<".", "j", "p", "g">>, <<".", "j", "p", "e", "g">>}

\* the file-type filter of process_directory and of download_file
MatchesFileType(name, ft) ==
  (ft = FILE_TYPE_JSON /\ EndsWith(name, DotJson))
  \/ (ft = FILE_TYPE_IMAGE /\ Lower(Suffix(name)) \in SUPPORTED_IMAGE_EXTENSIONS)

\* the number of nodes of the remote tree below its root
MaxNodes == 3

\* what a node of the remote tree is
NodeKinds == {"a.json", "a.png", "a.JPG", "dir"}

\* the "type" the contents API reports for a node
TypeOfKind(k) == IF k = "dir" THEN "dir" ELSE "file"

\* the "name" the contents API reports for node i of kind k; a directory
\* carries a name that ends in ".json", as a file's may
NameOfKind(i, k) ==
  CASE k = "a.json" -> <<"a", ".", "j", "s", "o", "n">>
    [] k = "a.png" -> <<"a", ".", "p", "n", "g">>
    [] k = "a.JPG" -> <<"a", ".", "J", "P", "G">>
    [] OTHER -> <<"d", Digits[i + 1]>> \o DotJson

\* node 0 is the root directory; node i > 0 lies in the directory parent,
\* an earlier node, and the names within one directory are distinct
WellFormedTree(t) ==
  /\ \A i \in DOMAIN t :
       /\ t[i].parent < i
       /\ t[i].parent # 0 => t[t[i].parent].kind = "dir"
  /\ \A i, j \in DOMAIN t :
       (i # j /\ t[i].parent = t[j].parent)
         => NameOfKind(i, t[i].kind) # NameOfKind(j, t[j].kind)

Trees ==
  UNION {{t \in [1..n -> [parent : 0..(MaxNodes - 1), kind : NodeKinds]] :
            WellFormedTree(t)} : n \in 0..MaxNodes}

\* subdir_path of process_directory: path/name, or name under the root
JoinPath(path, name) ==
  IF path # <<>> THEN path \o <<"/">> \o name ELSE name

\* the repository path of directory node d
RECURSIVE RemotePath(_, _)
RemotePath(t, d) ==
  IF d = 0 THEN <<>>
  ELSE JoinPath(RemotePath(t, t[d].parent), NameOfKind(d, t[d].kind))

IsDirNode(t, d) == d = 0 \/ (d \in DOMAIN t /\ t[d].kind = "dir")

\* the directory the contents endpoint serves for a path
ResolveDir(t, path) ==
  CHOOSE d \in {0} \cup DOMAIN t : IsDirNode(t, d) /\ RemotePath(t, d) = path

Children(t, d) == {i \in DOMAIN t : t[i].parent = d}

\* one entry of a directory listing, as the contents API returns it; the
\* node number stands for the entry's download_url
Item(t, i) ==
  [name |-> NameOfKind(i, t[i].kind), type |-> TypeOfKind(t[i].kind), node |-> i]

\* the orders in which the API may return the entries of directory d
Listings(t, d) ==
  LET c == Children(t, d)
  IN  {[k \in 1..Cardinality(c) |-> Item(t, f[k])] :
         f \in {g \in [1..Cardinality(c) -> c] :
                  \A x, y \in 1..Cardinality(c) : x # y => g[x] # g[y]}}

(***************************************************************************)
(* github_workflow_crawler: get_repo_contents, download_file,              *)
(* process_directory and main                                              *)
(***************************************************************************)

NoExc == [type |-> "", at |-> "", path |-> <<>>, status |-> 0]

\* requests' Response.raise_for_status(): HTTPError for 4xx and 5xx
RaiseForStatus(status) == status >= 400 /\ status < 600

\* the answers of the contents endpoint: a status, or no answer at all
\* (status 0: the transport failed and requests.get raised)
ListingStatuses == {0, 200, 403, 404}

\* the answers to the GET of a download_url: transport failure (status 0),
\* a non-200 status, or 200 with a body; the body is text for a JSON file
\* and an image container for an image file
DownloadResponses(ft) ==
  {[status |-> 0, text |-> <<>>, img |-> CorruptImage],
   [status |-> 404, text |-> <<>>, img |-> CorruptImage]}
  \cup
  (IF ft = FILE_TYPE_JSON
   THEN {[status |-> 200, text |-> x, img |-> CorruptImage] :
           x \in {TextObject, TextSteps}}
   ELSE {[status |-> 200, text |-> <<>>, img |-> x] :
           x \in {[decodable |-> TRUE,
                   info |-> [parameters |-> NoField, workflow |-> Field(TextObject)]],
                  [decodable |-> TRUE,
                   info |-> [parameters |-> NoField, workflow |-> Field(TextEmptyObject)]]}})

\* download_file(file_info, file_type) given the server's answer resp.
\* kind "none": returns None; "data": returns {"name", "content"};
\* "raise": an exception escapes.  requested tells whether the GET was sent.
NoFileData(requested) ==
  [kind |-> "none", requested |-> requested, name |-> <<>>, content |-> PyNone,
   exc |-> ""]

download_fileAnyType(file_info, ft, resp) ==
  IF ~MatchesFileType(file_info.name, ft) THEN NoFileData(FALSE)
  ELSE IF resp.status = 0
       THEN [kind |-> "raise", requested |-> TRUE, name |-> <<>>,
             content |-> PyNone, exc |-> "ConnectionError"]
  ELSE IF resp.status # 200 THEN NoFileData(TRUE)
  ELSE IF ft = FILE_TYPE_JSON
       THEN IF JsonLoads(resp.text).ok
            THEN [kind |-> "data", requested |-> TRUE, name |-> file_info.name,
                  content |-> JsonLoads(resp.text).val, exc |-> ""]
            ELSE NoFileData(TRUE)
  ELSE LET w == ExtractWorkflowFromImageGithub(resp.img)
       IN  IF ~w.raised /\ Truthy(w.val)
           THEN [kind |-> "data", requested |-> TRUE,
                 name |-> Stem(file_info.name) \o DotJson,
                 content |-> w.val, exc |-> ""]
           ELSE NoFileData(TRUE)

download_file(file_info, ft, resp) ==
  IF file_info.type # "file" THEN NoFileData(FALSE)
  ELSE IF ~MatchesFileType(file_info.name, ft) THEN NoFileData(FALSE)
  ELSE IF resp.status = 0
       THEN [kind |-> "raise", requested |-> TRUE, name |-> <<>>,
             content |-> PyNone, exc |-> "ConnectionError"]
  ELSE IF resp.status # 200 THEN NoFileData(TRUE)
  ELSE IF ft = FILE_TYPE_JSON
       THEN IF JsonLoads(resp.text).ok
            THEN [kind |-> "data", requested |-> TRUE, name |-> file_info.name,
                  content |-> JsonLoads(resp.text).val, exc |-> ""]
            ELSE NoFileData(TRUE)
  ELSE LET w == ExtractWorkflowFromImageGithub(resp.img)
       IN  IF ~w.raised /\ Truthy(w.val)
           THEN [kind |-> "data", requested |-> TRUE,
                 name |-> Stem(file_info.name) \o DotJson,
                 content |-> w.val, exc |-> ""]
           ELSE NoFileData(TRUE)

\* a file of the output directory: the serialisation json.dump writes for
\* doc, whole or cut short
FileOf(doc) == [doc |-> doc, whole |-> TRUE]
Truncated(doc) == [doc |-> doc, whole |-> FALSE]

\* open(output_path, "w") and json.dump: the write succeeds, open() raises
\* OSError, or the write fails after open() has truncated the file
WriteOutcomes == {"written", "open_error", "write_error"}

\* the output directory after writing content under name
WriteFile(dir, name, content) ==
  [f \in DOMAIN dir \cup {name} |-> IF f = name THEN content ELSE dir[f]]

\* what a persist does to the output directory
PersistEffect(dir, name, doc, outcome) ==
  CASE outcome = "written" -> WriteFile(dir, name, FileOf(doc))
    [] outcome = "write_error" -> WriteFile(dir, name, Truncated(doc))
    [] OTHER -> dir

\* the record kept of one persist: node is the listing entry whose document
\* is written
PersistRecord(dir, name, doc, outcome, node) ==
  [path |-> name, existed |-> name \in DOMAIN dir, outcome |-> outcome,
   same |-> name \in DOMAIN dir
            /\ PersistEffect(dir, name, doc, outcome)[name] = dir[name],
   node |-> node]

\* main's handler of an exception that escapes process_directory: it logs
\* and re-raises, so the interpreter ends the process with status 1
MainOnExceptionSwallow(e) == [pc |-> "done", exitCode |-> 0]

MainOnException(e) == [pc |-> "crashed", exitCode |-> 1]

\* a new process_directory call on path
Frame(path) ==
  [path |-> path, listed |-> FALSE, contents |-> <<>>, i |-> 1,
   total_files |-> 0, downloaded_files |-> 0]

Top == stack[Len(stack)]
SetTop(f) == [stack EXCEPT ![Len(stack)] = f]

\* an exception that no handler of process_directory catches unwinds every
\* active call and reaches main
Crash(type, at, path, status) ==
  LET e == [type |-> type, at |-> at, path |-> path, status |-> status]
  IN  /\ exc' = e
      /\ pc' = MainOnException(e).pc
      /\ exitCode' = MainOnException(e).exitCode

treeFrame == <<tree, file_type>>
extractVars == <<impl, image, result>>
webVars == <<site, example_pages, page_i, image_urls, pending, attempts, gets,
             downloaded_images, sleeps>>

civVars == <<environ, args, api_key, results, file_k>>

\* the variables of the model search, at rest
NoArgs == [model_id |-> 0, download |-> FALSE]
NoResults == [type |-> <<>>, files |-> <<>>]
CivAtRest ==
  /\ environ = PyNone
  /\ args = NoArgs
  /\ api_key = PyNone
  /\ results = NoResults
  /\ file_k = 1

\* the variables of the web-page crawl, at rest
NoSite == [root |-> [status |-> 0, links |-> <<>>], pages |-> <<>>]
WebAtRest ==
  /\ site = NoSite
  /\ example_pages = <<>>
  /\ page_i = 1
  /\ image_urls = <<>>
  /\ pending = EmptyBag
  /\ attempts = EmptyBag
  /\ gets = EmptyBag
  /\ downloaded_images = EmptyBag
  /\ sleeps = 0

\* main: the output directory is created and process_directory is called on
\* the repository path
Main ==
  /\ pc = "main"
  /\ pc' = "process_directory"
  /\ stack' = <<Frame(<<>>)>>
  /\ UNCHANGED <<exc, exitCode, fs, reqs, persistLog, ret, treeFrame, extractVars, webVars, civVars>>

\* process_directory, first statement: get_repo_contents(owner, repo, path)
GetRepoContents ==
  /\ pc = "process_directory"
  /\ ~Top.listed
  /\ \E status \in ListingStatuses :
       /\ reqs' = Append(reqs, [kind |-> "list", path |-> Top.path, node |-> 0])
       /\ IF status = 0
          THEN /\ Crash("ConnectionError", "get_repo_contents", Top.path, status)
               /\ UNCHANGED stack
          ELSE IF status # 200 /\ RaiseForStatus(status)
          THEN /\ Crash("HTTPError", "get_repo_contents", Top.path, status)
               /\ UNCHANGED stack
          ELSE /\ \E l \in Listings(tree, ResolveDir(tree, Top.path)) :
                    stack' = SetTop([Top EXCEPT !.listed = TRUE, !.contents = l])
               /\ UNCHANGED <<pc, exc, exitCode>>
  /\ UNCHANGED <<fs, persistLog, ret, treeFrame, extractVars, webVars, civVars>>

\* the loop of process_directory stands at an item
AtItem ==
  /\ pc = "process_directory"
  /\ Top.listed
  /\ Top.i <= Len(Top.contents)

CurrentItem == Top.contents[Top.i]

\* loop body, a file that matches the filter: count it, download it, and
\* save what download_file returned
ProcessFile ==
  /\ AtItem
  /\ CurrentItem.type = "file"
  /\ MatchesFileType(CurrentItem.name, file_type)
  /\ \E resp \in DownloadResponses(file_type), w \in WriteOutcomes :
       LET d == download_file(CurrentItem, file_type, resp)
           counted == [Top EXCEPT !.total_files = @ + 1]
       IN  /\ reqs' = IF d.requested
                      THEN Append(reqs, [kind |-> "download", path |-> Top.path,
                                         node |-> CurrentItem.node])
                      ELSE reqs
           /\ CASE d.kind = "raise" ->
                     /\ w = "written"
                     /\ Crash(d.exc, "download_file", Top.path, resp.status)
                     /\ stack' = SetTop(counted)
                     /\ UNCHANGED <<fs, persistLog>>
                [] d.kind = "none" ->
                     /\ w = "written"
                     /\ stack' = SetTop([counted EXCEPT !.i = @ + 1])
                     /\ UNCHANGED <<pc, exc, exitCode, fs, persistLog>>
                [] OTHER ->
                     /\ fs' = PersistEffect(fs, d.name, d.content, w)
                     /\ persistLog' =
                          Append(persistLog, PersistRecord(fs, d.name, d.content, w,
                                                         CurrentItem.node))
                     /\ IF w = "written"
                        THEN /\ stack' = SetTop([counted EXCEPT
                                                   !.downloaded_files = @ + 1,
                                                   !.i = @ + 1])
                             /\ UNCHANGED <<pc, exc, exitCode>>
                        ELSE /\ Crash("OSError", "open", Top.path, resp.status)
                             /\ stack' = SetTop(counted)
  /\ UNCHANGED <<ret, treeFrame, extractVars, webVars, civVars>>

\* --recursive is a store_true flag whose default is True
Recursive == TRUE

\* loop body, a directory: process_directory is called on its path
ProcessSubdirectory ==
  /\ AtItem
  /\ ~(CurrentItem.type = "file")
  /\ Recursive /\ CurrentItem.type = "dir"
  /\ stack' = Append(stack, Frame(JoinPath(Top.path, CurrentItem.name)))
  /\ UNCHANGED <<pc, exc, exitCode, fs, reqs, persistLog, ret, treeFrame, extractVars, webVars, civVars>>

\* loop body, any other item (a file the filter rejects, or an entry that is
\* not a file and is not recursed into): nothing is done
SkipItem ==
  /\ AtItem
  /\ ~(CurrentItem.type = "file" /\ MatchesFileType(CurrentItem.name, file_type))
  /\ ~(CurrentItem.type # "file" /\ Recursive /\ CurrentItem.type = "dir")
  /\ stack' = SetTop([Top EXCEPT !.i = @ + 1])
  /\ UNCHANGED <<pc, exc, exitCode, fs, reqs, persistLog, ret, treeFrame, extractVars, webVars, civVars>>

\* the caller's loop after a recursive call returned (sub_total,
\* sub_downloaded)
AddSubTotalsDropTotal(caller, callee) ==
  [caller EXCEPT !.downloaded_files = @ + callee.downloaded_files, !.i = @ + 1]

AddSubTotals(caller, callee) ==
  [caller EXCEPT !.total_files = @ + callee.total_files,
                 !.downloaded_files = @ + callee.downloaded_files,
                 !.i = @ + 1]

\* the loop is over: process_directory returns its totals, to the calling
\* process_directory or to main, which logs them and ends
ReturnTotals ==
  /\ pc = "process_directory"
  /\ Top.listed
  /\ Top.i > Len(Top.contents)
  /\ IF Len(stack) > 1
     THEN /\ stack' = Append(SubSeq(stack, 1, Len(stack) - 2),
                             AddSubTotals(stack[Len(stack) - 1], Top))
          /\ UNCHANGED <<pc, exitCode, ret>>
     ELSE /\ stack' = <<>>
          /\ ret' = <<Top.total_files, Top.downloaded_files>>
          /\ pc' = "done"
          /\ exitCode' = 0
  /\ UNCHANGED <<exc, fs, reqs, persistLog, treeFrame, extractVars, webVars, civVars>>

\* the documents an earlier run may have left in the output directory
EmptyDir == [f \in {} |-> FileOf(PyNone)]
InitialDirs ==
  {EmptyDir} \cup
  {[f \in {<<"a", ".", "j", "s", "o", "n">>} |-> FileOf(d)] :
     d \in {JsonLoads(TextList).val}}

InitTree ==
  /\ pc = "main"
  /\ exc = NoExc
  /\ exitCode = -1
  /\ fs \in InitialDirs
  /\ reqs = <<>>
  /\ persistLog = <<>>
  /\ tree \in Trees
  /\ file_type \in SUPPORTED_FILE_TYPES
  /\ stack = <<>>
  /\ ret = <<0, 0>>
  /\ impl = "github_workflow_crawler"
  /\ image = CorruptImage
  /\ result = NoResult
  /\ WebAtRest
  /\ CivAtRest

NextTree ==
  \/ Main
  \/ GetRepoContents
  \/ ProcessFile
  \/ ProcessSubdirectory
  \/ SkipItem
  \/ ReturnTotals

SpecTree == InitTree /\ [][NextTree]_vars

\* requests.get(url) of get_repo_contents carries no timeout: when the
\* server accepts the request and never answers, the call never returns
ListingNeverAnswered ==
  /\ pc = "process_directory"
  /\ ~Top.listed
  /\ reqs' = Append(reqs, [kind |-> "list", path |-> Top.path, node |-> 0])
  /\ pc' = "blocked"
  /\ UNCHANGED <<exc, exitCode, fs, persistLog, stack, ret, treeFrame,
                 extractVars, webVars, civVars>>

\* requests.get(file_info["download_url"]) of download_file carries no
\* timeout either
DownloadNeverAnswered ==
  /\ AtItem
  /\ CurrentItem.type = "file"
  /\ MatchesFileType(CurrentItem.name, file_type)
  /\ reqs' = Append(reqs, [kind |-> "download", path |-> Top.path,
                           node |-> CurrentItem.node])
  /\ stack' = SetTop([Top EXCEPT !.total_files = @ + 1])
  /\ pc' = "blocked"
  /\ UNCHANGED <<exc, exitCode, fs, persistLog, ret, treeFrame, extractVars,
                 webVars, civVars>>

\* the hosted-tree run against servers that may leave a request unanswered;
\* the interpreter keeps running the program while a step is possible
NextTreeBlocking ==
  \/ NextTree
  \/ ListingNeverAnswered
  \/ DownloadNeverAnswered

SpecTreeFair ==
  InitTree /\ [][NextTreeBlocking]_vars /\ WF_vars(NextTreeBlocking)

(***************************************************************************)
(* Properties of the hosted-tree run                                       *)
(***************************************************************************)

\* the files of the remote tree that the requested file type selects
MatchingNodes ==
  {i \in DOMAIN tree :
     TypeOfKind(tree[i].kind) = "file"
     /\ MatchesFileType(NameOfKind(i, tree[i].kind), file_type)}

DownloadRequests == {k \in 1..Len(reqs) : reqs[k].kind = "download"}

\* C1: persisting never overwrites.  Whenever a document is persisted to a
\* destination path at which a file already exists, the persist is skipped
\* and the content of that file is afterwards what it was before.
C1_PersistSkipsExisting ==
  \A k \in 1..Len(persistLog) :
    persistLog[k].existed
      => persistLog[k].outcome = "skipped" /\ persistLog[k].same

\* C2: a failed listing (403 or 404) of a nested subdirectory does not end
\* the run: the process is not terminated by the error of that listing, so
\* the remaining entries of the enclosing listings are still processed.
C2_NestedListingFailureIsLocal ==
  (exc.at = "get_repo_contents" /\ exc.path # <<>> /\ exc.status \in {403, 404})
    => pc # "crashed"

\* C3: a failure while handling one eligible file (transport failure of its
\* download, or a filesystem error while writing its output) never aborts
\* the run.
C3_FileFailureNeverAborts ==
  exc.at \in {"download_file", "open"} => pc # "crashed"

\* C4: when a recursive run returns its totals, the total count of eligible
\* files equals the number of files of the whole remote tree whose name
\* matches the requested file type, whatever the order of the listings.
C4_TotalCountsEveryMatchingFile ==
  pc = "done" => ret[1] = Cardinality(MatchingNodes)

\* C4 witness: a finished run over a tree with a matching file inside a
\* subdirectory and at least two matching files in all.
C4_Witness ==
  /\ pc = "done"
  /\ ret[1] >= 2
  /\ \E i \in MatchingNodes : tree[i].parent # 0

\* C5: if the listing of the requested root path answers 404, the run ends
\* with an error that leaves main (exit status 1), no file was downloaded
\* and no document was persisted.
C5_RootNotFoundIsFatal ==
  (exc.at = "get_repo_contents" /\ exc.path = <<>> /\ exc.status = 404)
    => /\ pc = "crashed"
       /\ exitCode = 1
       /\ DownloadRequests = {}
       /\ persistLog = <<>>

\* C5 witness: the root listing of a tree that holds matching files answered
\* 404 and the run has ended.
C5_Witness ==
  /\ exc.at = "get_repo_contents" /\ exc.path = <<>> /\ exc.status = 404
  /\ pc # "process_directory"
  /\ MatchingNodes # {}

\* C11: within one run into the flat output directory, two candidates with
\* different original file names are never written to the same destination
\* path, so no document of the run is overwritten by another candidate's.
C11_OutputNamesInjective ==
  \A j, k \in 1..Len(persistLog) :
    (/\ j < k
     /\ persistLog[j].outcome # "open_error"
     /\ persistLog[k].outcome # "open_error"
     /\ NameOfKind(persistLog[j].node, tree[persistLog[j].node].kind)
          # NameOfKind(persistLog[k].node, tree[persistLog[k].node].kind))
      => persistLog[j].path # persistLog[k].path

\* C12: every run over a finite source eventually terminates and returns
\* its report, even when an endpoint accepts a request and never responds.
C12_RunEventuallyTerminates == <>(pc \in {"done", "crashed"})

\* C13: no download request is ever issued for a listing entry that is a
\* directory: the run's download requests all name files, and at a
\* directory entry download_file returns None without a request, whatever
\* the server would answer.
C13_NoDownloadOfDirectories ==
  /\ \A k \in DownloadRequests : tree[reqs[k].node].kind # "dir"
  /\ (AtItem /\ CurrentItem.type # "file") =>
       \A resp \in DownloadResponses(file_type) :
         download_file(CurrentItem, file_type, resp) = NoFileData(FALSE)

\* a finished run that listed a directory whose name passes the file-type
\* filter, and downloaded a file
C13_Witness ==
  /\ pc = "done"
  /\ DownloadRequests # {}
  /\ \E d \in DOMAIN tree :
       /\ tree[d].kind = "dir"
       /\ MatchesFileType(NameOfKind(d, tree[d].kind), file_type)
       /\ \E k \in 1..Len(reqs) :
            reqs[k].kind = "list" /\ reqs[k].path = RemotePath(tree, d)

(***************************************************************************)
(* Metadata extraction on its own: one call of one of the three copies of  *)
(* extract_workflow_from_image on one image                                *)
(***************************************************************************)

EmptyTree == [i \in {} |-> [parent |-> 0, kind |-> "dir"]]

\* the variables of the hosted-tree run, at rest
TreeAtRest ==
  /\ tree = EmptyTree
  /\ file_type = FILE_TYPE_JSON
  /\ stack = <<>>
  /\ ret = <<0, 0>>

InitExtract ==
  /\ pc = "extract_call"
  /\ exc = NoExc
  /\ exitCode = -1
  /\ fs = EmptyDir
  /\ reqs = <<>>
  /\ persistLog = <<>>
  /\ TreeAtRest
  /\ impl \in Impls
  /\ image \in Images
  /\ result = NoResult
  /\ WebAtRest
  /\ CivAtRest

ExtractCall ==
  /\ pc = "extract_call"
  /\ result' = ExtractWorkflowFromImage(impl, image)
  /\ pc' = "extract_done"
  /\ UNCHANGED <<exc, exitCode, fs, reqs, persistLog, tree, file_type, stack, ret,
                 impl, image, webVars, civVars>>

NextExtract == ExtractCall

SpecExtract == InitExtract /\ [][NextExtract]_vars

\* decoding a payload by hand: base64, then UTF-8, then JSON
ManualBase64Json(text) ==
  LET b == B64Decode(text)
      t == Utf8Decode(b.bytes)
  IN  IF b.ok /\ t.ok THEN JsonLoads(t.text) ELSE PFail

\* C6: when the payload the extraction reads is not JSON itself but is the
\* base64 encoding of a JSON text, the call returns the document obtained by
\* base64-decoding the payload and parsing the result.
C6_Base64FallbackExtracts ==
  LET data == SelectWorkflowData(image.info)
  IN  (/\ pc = "extract_done"
       /\ image.decodable /\ data.present
       /\ ~JsonLoads(data.text).ok
       /\ ManualBase64Json(data.text).ok)
        => result = Returned(ManualBase64Json(data.text).val)

CrawlerImpls == {"github_workflow_crawler", "comfyui_crawler"}

\* C7 as claimed: on any image whose workflow field holds valid JSON, the
\* crawlers' extraction returns the parsed JSON of that field, whatever
\* other fields the image has; on an image with neither field it returns
\* None.
C7_WorkflowFieldAlwaysWins ==
  (pc = "extract_done" /\ impl \in CrawlerImpls /\ image.decodable)
    => /\ (image.info.workflow.present /\ JsonLoads(image.info.workflow.text).ok)
            => result = Returned(JsonLoads(image.info.workflow.text).val)
       /\ (~image.info.workflow.present /\ ~image.info.parameters.present)
            => result = Returned(PyNone)

\* C7 as amended: on an image that has no parameters field and whose
\* workflow field holds valid JSON, the crawlers' extraction returns the
\* parsed JSON of that field; on an image with neither field it returns None.
C7_WorkflowFieldWithoutParameters ==
  (pc = "extract_done" /\ impl \in CrawlerImpls /\ image.decodable
   /\ ~image.info.parameters.present)
    => /\ (image.info.workflow.present /\ JsonLoads(image.info.workflow.text).ok)
            => result = Returned(JsonLoads(image.info.workflow.text).val)
       /\ ~image.info.workflow.present => result = Returned(PyNone)

\* C7 witness: a crawler's extraction has returned the dict parsed from the
\* workflow field of an image without a parameters field.
C7_Witness ==
  /\ pc = "extract_done" /\ impl \in CrawlerImpls /\ image.decodable
  /\ ~image.info.parameters.present
  /\ image.info.workflow = Field(TextObject)
  /\ result.val.tag = "dict" /\ Truthy(result.val)

\* C8: no exception escapes a call of extract_workflow_from_image, whatever
\* the image: the call returns a document or None.
C8_ExtractionNeverRaises ==
  pc = "extract_done" => ~result.raised

(***************************************************************************)
(* URLs (urllib.parse), as the web-page crawler uses them                  *)
(***************************************************************************)

\* body applied to the value of e
Bind(e, body(_)) == CHOOSE r \in {body(x) : x \in {e}} : TRUE

\* the first position at or after i of a character of the set cs, else
\* Len(s) + 1
RECURSIVE FindAny(_, _, _)
FindAny(s, i, cs) ==
  IF i > Len(s) THEN Len(s) + 1
  ELSE IF s[i] \in cs THEN i
  ELSE FindAny(s, i + 1, cs)

Letters == {Printable[i] : i \in 34..59} \cup {Printable[i] : i \in 66..91}
SchemeChars == Letters \cup {Digits[d] : d \in 1..10} \cup {"+", "-", "."}

\* urlsplit: the length of the scheme prefix "scheme:" of url, 0 if url has
\* no scheme
SchemeEnd(url) ==
  Bind(FindAny(url, 1, {":"}), LAMBDA c :
    IF c <= Len(url) /\ c > 1 /\ url[1] \in Letters
       /\ \A k \in 1..(c - 1) : url[k] \in SchemeChars
    THEN c
    ELSE 0)

\* urlparse(url), without params: scheme, netloc, path, query and fragment
UrlParse(url0) ==
  Bind(url0, LAMBDA url :
  Bind(SchemeEnd(url), LAMBDA se :
  Bind(SubSeq(url, se + 1, Len(url)), LAMBDA rest :
  Bind(StartsWith(rest, <<"/", "/">>), LAMBDA hasNet :
  Bind(IF hasNet THEN FindAny(rest, 3, {"/", "?", "#"}) ELSE 1, LAMBDA ne :
  Bind(SubSeq(rest, ne, Len(rest)), LAMBDA afterNet :
  Bind(FindAny(afterNet, 1, {"#"}), LAMBDA fr :
  Bind(SubSeq(afterNet, 1, fr - 1), LAMBDA beforeFr :
  Bind(FindAny(beforeFr, 1, {"?"}), LAMBDA qu :
    [scheme |-> Lower(SubSeq(url, 1, se - 1)),
     netloc |-> IF hasNet THEN SubSeq(rest, 3, ne - 1) ELSE <<>>,
     path |-> SubSeq(beforeFr, 1, qu - 1),
     query |-> SubSeq(beforeFr, qu + 1, Len(beforeFr)),
     fragment |-> SubSeq(afterNet, fr + 1, Len(afterNet))])))))))))

\* urlunparse
UrlUnparse(u) ==
  (IF u.scheme # <<>> THEN u.scheme \o <<":">> ELSE <<>>)
  \o (IF u.netloc # <<>>
      THEN <<"/", "/">> \o u.netloc
           \o (IF u.path # <<>> /\ u.path[1] # "/" THEN <<"/">> ELSE <<>>)
      ELSE <<>>)
  \o u.path
  \o (IF u.query # <<>> THEN <<"?">> \o u.query ELSE <<>>)
  \o (IF u.fragment # <<>> THEN <<"#">> \o u.fragment ELSE <<>>)

\* str.split("/")
RECURSIVE SplitSlash(_)
SplitSlash(s0) ==
  Bind(s0, LAMBDA s :
  Bind(FindAny(s, 1, {"/"}), LAMBDA k :
    IF k > Len(s) THEN <<s>>
    ELSE <<SubSeq(s, 1, k - 1)>> \o SplitSlash(SubSeq(s, k + 1, Len(s)))))

\* "/".join(parts)
RECURSIVE JoinSlash(_)
JoinSlash(parts) ==
  IF parts = <<>> THEN <<>>
  ELSE IF Len(parts) = 1 THEN parts[1]
  ELSE parts[1] \o <<"/">> \o JoinSlash(Tail(parts))

\* urljoin drops the empty segments strictly inside a relative reference's
\* segment list
RECURSIVE DropEmptyInside(_, _)
DropEmptyInside(segs, k) ==
  IF k > Len(segs) THEN <<>>
  ELSE (IF k > 1 /\ k < Len(segs) /\ segs[k] = <<>> THEN <<>> ELSE <<segs[k]>>)
       \o DropEmptyInside(segs, k + 1)

\* urljoin resolves the "." and ".." segments
RECURSIVE ResolveDots(_, _, _)
ResolveDots(segs, k, acc) ==
  IF k > Len(segs) THEN acc
  ELSE IF segs[k] = <<".", ".">>
       THEN ResolveDots(segs, k + 1,
                        IF Len(acc) > 0 THEN SubSeq(acc, 1, Len(acc) - 1) ELSE acc)
  ELSE IF segs[k] = <<".">> THEN ResolveDots(segs, k + 1, acc)
  ELSE ResolveDots(segs, k + 1, Append(acc, segs[k]))

\* urljoin: the path of the reference u resolved against the base path
ResolvePath(bpath, upath0) ==
  Bind(upath0, LAMBDA upath :
  Bind(SplitSlash(bpath), LAMBDA bparts0 :
  Bind(IF bparts0[Len(bparts0)] # <<>>
       THEN SubSeq(bparts0, 1, Len(bparts0) - 1) ELSE bparts0, LAMBDA bparts :
  Bind(IF upath[1] = "/" THEN SplitSlash(upath)
       ELSE DropEmptyInside(bparts \o SplitSlash(upath), 1), LAMBDA segs :
  Bind(ResolveDots(segs, 1, <<>>), LAMBDA res0 :
  Bind(JoinSlash(IF segs[Len(segs)] \in {<<".">>, <<".", ".">>}
                 THEN Append(res0, <<>>) ELSE res0), LAMBDA joined :
    IF joined = <<>> THEN <<"/">> ELSE joined))))))

\* urljoin(base, url) for an http(s) base
UrlJoin(base, url) ==
  Bind(UrlParse(base), LAMBDA b :
  Bind(UrlParse(url), LAMBDA u0 :
  Bind(IF u0.scheme = <<>> THEN [u0 EXCEPT !.scheme = b.scheme] ELSE u0, LAMBDA u :
    IF url = <<>> THEN base
    ELSE IF u.scheme # b.scheme THEN url
    ELSE IF u.netloc # <<>> THEN UrlUnparse(u)
    ELSE IF u.path = <<>>
         THEN UrlUnparse([u EXCEPT !.netloc = b.netloc, !.path = b.path,
                                   !.query = IF u.query = <<>> THEN b.query
                                             ELSE u.query])
    ELSE UrlUnparse([u EXCEPT !.netloc = b.netloc,
                              !.path = ResolvePath(b.path, u.path)]))))

\* is_image_url(url)
ImageExtensions ==
  {<<".", "j", "p", "g">>, <<".", "j", "p", "e", "g">>, <<".", "p", "n", "g">>,
   <<".", "g", "i", "f">>, <<".", "w", "e", "b", "p">>}

is_image_url(url) ==
  Bind(Lower(UrlParse(url).path), LAMBDA path :
    \E ext \in ImageExtensions : EndsWith(path, ext))

\* os.path.basename
Basename(path) ==
  Bind(SplitSlash(path), LAMBDA parts : parts[Len(parts)])

\* re.sub(r'[^\w\-\.]', '_', filename)
WordChars == Letters \cup {Digits[d] : d \in 1..10} \cup {"_"}
SanitizeFilename(name) ==
  [k \in 1..Len(name) |->
     IF name[k] \in WordChars \cup {"-", "."} THEN name[k] ELSE "_"]

\* the file name download_image saves a URL under
SaveName(url) ==
  Bind(Basename(UrlParse(url).path), LAMBDA filename :
    SanitizeFilename(filename))

(***************************************************************************)
(* The web-page crawler: crawl_images and download_image                   *)
(***************************************************************************)

Range(f) == {f[x] : x \in DOMAIN f}

\* the page the crawl starts from (base_url of the script, abbreviated)
base_url == <<"h", "t", "t", "p", ":", "/", "/", "h", "/", "e", "/">>

\* the most anchors on the root page, and the most img tags on a sub-page
MaxLinks == 4
MaxImgs == 2

\* href values of the root page's anchors: three images (one with an
\* upper-case suffix) and a sub-page
RootHrefs ==
  <<<<"a", ".", "p", "n", "g">>,
    <<"b", ".", "p", "n", "g">>,
    <<"c", ".", "J", "P", "G">>,
    <<"p", "/">>>>

\* src values of a sub-page's img tags: a new image, an image whose file
\* name the root page also uses, and another spelling of an image the root
\* page links
PageSrcs ==
  <<<<"x", ".", "p", "n", "g">>,
    <<"a", ".", "p", "n", "g">>,
    <<"/", "e", "/", "a", ".", "p", "n", "g">>>>

\* the anchors of a sub-page: none, or a link to an image that an img tag
\* of the page may show too
PageLinkLists ==
  {<<>>, <<<<"x", ".", "p", "n", "g">>>>}

\* the lists of at most n elements of universe, elements in the order of
\* the universe, repetitions allowed (the crawl collects what it finds into
\* one list and consumes it as a set)
ListsOf(universe, n) ==
  UNION {{[k \in 1..m |-> universe[ix[k]]] :
            ix \in {jx \in [1..m -> 1..Len(universe)] :
                      \A k \in 1..(m - 1) : jx[k] <= jx[k + 1]}} : m \in 0..n}

\* the answers to the GET of a page: a status and, with 200, the tags
\* BeautifulSoup finds
PageStatuses == {200, 404}
FailedPage == [status |-> 404, imgs |-> <<>>, links |-> <<>>]
PageContents ==
  {FailedPage} \cup
  {[status |-> 200, imgs |-> i, links |-> l] :
     i \in ListsOf(PageSrcs, MaxImgs), l \in PageLinkLists}

\* str.startswith on an href
HrefStartsWith(href, prefix) == StartsWith(href, prefix)

\* crawl_images, "Direct image links": the joined href of every anchor that
\* is_image_url accepts, in page order
RECURSIVE DirectImageLinks(_, _)
DirectImageLinks(page_url, links) ==
  IF links = <<>> THEN <<>>
  ELSE (IF Head(links) # <<>> /\ is_image_url(Head(links))
        THEN <<UrlJoin(page_url, Head(links))>> ELSE <<>>)
       \o DirectImageLinks(page_url, Tail(links))

\* crawl_images, "links to example pages": every anchor that is not an image,
\* not a fragment and does not start with "http"
IsExamplePageHref(href) ==
  /\ href # <<>>
  /\ ~is_image_url(href)
  /\ ~HrefStartsWith(href, <<"#">>)
  /\ ~HrefStartsWith(href, <<"h", "t", "t", "p">>)

RECURSIVE ExamplePages(_, _)
ExamplePages(page_url, links) ==
  IF links = <<>> THEN <<>>
  ELSE (IF IsExamplePageHref(Head(links))
        THEN <<UrlJoin(page_url, Head(links))>> ELSE <<>>)
       \o ExamplePages(page_url, Tail(links))

\* crawl_images, "Find images in the page": the joined src of every img tag
\* that has one
RECURSIVE PageImages(_, _)
PageImages(page_url, imgs) ==
  IF imgs = <<>> THEN <<>>
  ELSE (IF Head(imgs) # <<>> THEN <<UrlJoin(page_url, Head(imgs))>> ELSE <<>>)
       \o PageImages(page_url, Tail(imgs))

\* the sites: a root page that fails, or one that lists anchors together
\* with an answer for each sub-page it links
FailedRoots == {[status |-> st, links |-> <<>>] : st \in {0, 404}}

SitesWithRoot(l) ==
  {[root |-> [status |-> 200, links |-> l], pages |-> pg] :
     pg \in [Range(ExamplePages(base_url, l)) -> PageContents]}

Sites ==
  {[root |-> r, pages |-> <<>>] : r \in FailedRoots}
  \cup UNION {SitesWithRoot(l) : l \in ListsOf(RootHrefs, MaxLinks)}

\* image_urls = list(set(image_urls)): every URL once; the order of a set
\* iteration is arbitrary, so the list is kept as a bag
RemoveDuplicatesKeepAll(urls) ==
  [u \in Range(urls) |-> Cardinality({k \in DOMAIN urls : urls[k] = u})]

RemoveDuplicates(urls) == SetToBag(Range(urls))

\* an existence test that would take a file cut short for a missing one
SavePathExistsWholeOnly(dir, filename) ==
  filename = <<>> \/ (filename \in DOMAIN dir /\ dir[filename].whole)

\* os.path.exists(save_path): a URL whose path ends in "/" has the empty
\* file name, and save_path is then the directory itself
SavePathExists(dir, filename) == filename = <<>> \/ filename \in DOMAIN dir

\* download_image past the existence test: the GET and the chunked write
\* succeed, the GET fails or answers an error status, or the write fails
\* after open() created the file
DownloadOutcomes == {"saved", "get_error", "write_error"}

ImageEffect(dir, filename, url, outcome) ==
  CASE outcome = "saved" -> WriteFile(dir, filename, FileOf(PyStr(url)))
    [] outcome = "write_error" -> WriteFile(dir, filename, Truncated(PyStr(url)))
    [] OTHER -> dir

webFrame == <<exc, exitCode, reqs, persistLog, tree, file_type, stack, ret,
              extractVars, site, civVars>>

\* crawl_images up to the loop over example_pages: the root page is fetched
\* and its anchors are sorted into image links and sub-pages; a failure is
\* caught by the outer handler, which returns the empty list; no time.sleep
\* follows the GET of the root page
CrawlRoot ==
  /\ pc = "crawl_images"
  /\ gets' = gets (+) SetToBag({base_url})
  /\ IF site.root.status # 200
     THEN /\ pc' = "crawl_returned"
          /\ UNCHANGED <<example_pages, image_urls>>
     ELSE /\ image_urls' = DirectImageLinks(base_url, site.root.links)
          /\ example_pages' = ExamplePages(base_url, site.root.links)
          /\ pc' = "example_pages"
  /\ UNCHANGED <<fs, page_i, pending, attempts, downloaded_images, sleeps,
                 webFrame>>

\* one turn of "for page_url in example_pages": the page is fetched and the
\* src of its img tags and its image links join image_urls, then
\* time.sleep(1); a failure is caught by the inner handler, which skips the
\* rest of the turn, the sleep included, and the loop goes on
VisitExamplePage ==
  /\ pc = "example_pages"
  /\ page_i <= Len(example_pages)
  /\ LET page_url == example_pages[page_i]
         page == site.pages[page_url]
     IN  /\ gets' = gets (+) SetToBag({page_url})
         /\ image_urls' =
              IF page.status # 200 THEN image_urls
              ELSE image_urls \o PageImages(page_url, page.imgs)
                              \o DirectImageLinks(page_url, page.links)
         /\ sleeps' = IF page.status # 200 THEN sleeps ELSE sleeps + 1
  /\ page_i' = page_i + 1
  /\ UNCHANGED <<pc, fs, example_pages, pending, attempts, downloaded_images,
                 webFrame>>

\* after the loop: image_urls = list(set(image_urls))
DeduplicateUrls ==
  /\ pc = "example_pages"
  /\ page_i > Len(example_pages)
  /\ pending' = RemoveDuplicates(image_urls)
  /\ pc' = "downloads"
  /\ UNCHANGED <<fs, example_pages, page_i, image_urls, attempts, gets,
                 downloaded_images, sleeps, webFrame>>

\* one turn of "for url in image_urls": download_image(url, save_dir); its
\* time.sleep(0.5) is reached only after the image has been saved
DownloadImage ==
  /\ pc = "downloads"
  /\ \E url \in BagToSet(pending) :
       \E filename \in {SaveName(url)} :
           /\ pending' = pending (-) SetToBag({url})
           /\ attempts' = attempts (+) SetToBag({url})
           /\ IF SavePathExists(fs, filename)
              THEN /\ downloaded_images' = downloaded_images (+) SetToBag({filename})
                   /\ UNCHANGED <<fs, gets, sleeps>>
              ELSE \E outcome \in DownloadOutcomes :
                     /\ gets' = gets (+) SetToBag({url})
                     /\ fs' = ImageEffect(fs, filename, url, outcome)
                     /\ downloaded_images' =
                          IF outcome = "saved"
                          THEN downloaded_images (+) SetToBag({filename})
                          ELSE downloaded_images
                     /\ sleeps' = IF outcome = "saved" THEN sleeps + 1 ELSE sleeps
  /\ UNCHANGED <<pc, example_pages, page_i, image_urls, webFrame>>

\* the download loop is over: crawl_images returns downloaded_images
CrawlReturn ==
  /\ pc = "downloads"
  /\ BagToSet(pending) = {}
  /\ pc' = "crawl_returned"
  /\ UNCHANGED <<fs, example_pages, page_i, image_urls, pending, attempts, gets,
                 downloaded_images, sleeps, webFrame>>

InitWeb ==
  /\ pc = "crawl_images"
  /\ exc = NoExc
  /\ exitCode = -1
  /\ fs = EmptyDir
  /\ reqs = <<>>
  /\ persistLog = <<>>
  /\ TreeAtRest
  /\ impl = "comfyui_crawler"
  /\ image = CorruptImage
  /\ result = NoResult
  /\ site \in Sites
  /\ example_pages = <<>>
  /\ page_i = 1
  /\ image_urls = <<>>
  /\ pending = EmptyBag
  /\ attempts = EmptyBag
  /\ gets = EmptyBag
  /\ downloaded_images = EmptyBag
  /\ sleeps = 0
  /\ CivAtRest

NextWeb ==
  \/ CrawlRoot
  \/ VisitExamplePage
  \/ DeduplicateUrls
  \/ DownloadImage
  \/ CrawlReturn

SpecWeb == InitWeb /\ [][NextWeb]_vars

\* the image URIs of a site: the root page's direct image links and, for
\* every sub-page that answers, its img sources and direct image links
DiscoveredUris ==
  Range(DirectImageLinks(base_url, site.root.links))
  \cup UNION {Range(PageImages(p, site.pages[p].imgs))
              \cup Range(DirectImageLinks(p, site.pages[p].links)) :
                p \in {q \in DOMAIN site.pages : site.pages[q].status = 200}}

\* C9: every image URI the crawl discovers is handed to download_image
\* exactly once, however many anchors and img tags of the root page and of
\* the sub-pages refer to it: nothing is attempted before the list is
\* de-duplicated, the de-duplicated list holds the discovered URIs, no URI
\* is attempted twice while the downloads run, and at the return the
\* attempts are the distinct URIs of the discovery list, once each
C9_EachUriAttemptedOnce ==
  /\ pc \in {"crawl_images", "example_pages"} => attempts = EmptyBag
  /\ pc = "downloads" /\ attempts = EmptyBag =>
       /\ Range(image_urls) = DiscoveredUris
       /\ BagToSet(pending) = DiscoveredUris
  /\ \A u \in BagToSet(attempts) : CopiesIn(u, attempts) = 1
  /\ pc = "downloads" =>
       \A u \in Range(image_urls) :
         CopiesIn(u, attempts) + CopiesIn(u, pending) = 1
  /\ pc = "crawl_returned" =>
       /\ BagToSet(attempts) = Range(image_urls)
       /\ BagCardinality(attempts) = Cardinality(Range(image_urls))

\* the crawl has returned from a site whose root page links three images and
\* whose sub-page shows two more, five attempts in all, where the discovery
\* list referred to one of them more than once
C9_Witness ==
  /\ pc = "crawl_returned"
  /\ Cardinality(Range(DirectImageLinks(base_url, site.root.links))) = 3
  /\ BagCardinality(attempts) = 5
  /\ Len(image_urls) > 5

\* href values of root-page anchors of every class: a relative sub-page, a
\* fragment, an absolute link to a page of the root's origin, a
\* protocol-relative and an absolute link to another origin, and an image
LinkHrefs ==
  <<<<"p", "/">>,
    <<"#", "t">>,
    <<"h", "t", "t", "p", ":", "/", "/", "h", "/", "e", "/", "q", "/">>,
    <<"/", "/", "o", "/", "x", "/">>,
    <<"h", "t", "t", "p", ":", "/", "/", "o", "/", "y", "/">>,
    <<"a", ".", "p", "n", "g">>>>

\* the answers of the sub-pages of such a site: a failure, or one img tag
LinkPageContents ==
  {FailedPage,
   [status |-> 200, imgs |-> <<<<"x", ".", "p", "n", "g">>>>, links |-> <<>>]}

LinkSites ==
  UNION {{[root |-> [status |-> 200, links |-> l], pages |-> pg] :
            pg \in [Range(ExamplePages(base_url, l)) -> LinkPageContents]} :
         l \in ListsOf(LinkHrefs, MaxLinks)}

\* the crawl of a site whose root page links targets of every class
InitWebLinks ==
  /\ pc = "crawl_images"
  /\ exc = NoExc
  /\ exitCode = -1
  /\ fs = EmptyDir
  /\ reqs = <<>>
  /\ persistLog = <<>>
  /\ TreeAtRest
  /\ impl = "comfyui_crawler"
  /\ image = CorruptImage
  /\ result = NoResult
  /\ site \in LinkSites
  /\ example_pages = <<>>
  /\ page_i = 1
  /\ image_urls = <<>>
  /\ pending = EmptyBag
  /\ attempts = EmptyBag
  /\ gets = EmptyBag
  /\ downloaded_images = EmptyBag
  /\ sleeps = 0
  /\ CivAtRest

SpecWebLinks == InitWebLinks /\ [][NextWeb]_vars

\* two URLs of one origin: same scheme and same host
SameOrigin(u, v) ==
  Bind(UrlParse(u), LAMBDA pu :
  Bind(UrlParse(v), LAMBDA pv :
    pu.scheme = pv.scheme /\ pu.netloc = pv.netloc))

\* C15: once the sub-pages have been visited and before any download, a
\* target of a root-page anchor has been fetched if and only if it is of
\* the root page's origin, is not an image link and is not a fragment link.
C15_SubPagesAreSameOriginLinks ==
  (pc = "downloads" /\ attempts = EmptyBag) =>
    \A k \in DOMAIN site.root.links :
      Bind(site.root.links[k], LAMBDA href :
      Bind(UrlJoin(base_url, href), LAMBDA target :
        (CopiesIn(target, gets) > 0)
          <=> (/\ SameOrigin(target, base_url)
               /\ ~is_image_url(href)
               /\ ~HrefStartsWith(href, <<"#">>))))

\* C14: writes to the destination are atomic: after a write that failed
\* part-way no file exists at the destination path unless it holds the
\* complete content.
C14_WritesAreAtomic == \A f \in DOMAIN fs : fs[f].whole

(***************************************************************************)
(* The script run of comfyui_crawler.py: crawl_images, then                *)
(* process_images_for_workflows, then the end of the process               *)
(***************************************************************************)

\* the most anchors on the root page of a site of the script run
MaxMainLinks == 2

\* os.path.splitext(name)[0]: the name up to its last dot, unless only dots
\* come before that dot
SplitextRoot(name) ==
  IF LastDot(name) > 1 /\ \E k \in 1..(LastDot(name) - 1) : name[k] # "."
  THEN SubSeq(name, 1, LastDot(name) - 1)
  ELSE name

\* save_workflow_as_json: json_filename = f"{base_name}_workflow.json"
WorkflowSuffix ==
  <<"_", "w", "o", "r", "k", "f", "l", "o", "w", ".", "j", "s", "o", "n">>
WorkflowName(image_filename) == SplitextRoot(image_filename) \o WorkflowSuffix

\* process_images_for_workflows: filename.lower().endswith((...))
WorkflowImageExtensions ==
  {<<".", "p", "n", "g">>, <<".", "j", "p", "g">>,
   <<".", "j", "p", "e", "g">>, <<".", "w", "e", "b", "p">>}
IsWorkflowImage(filename) ==
  \E ext \in WorkflowImageExtensions : EndsWith(Lower(filename), ext)

\* what the site serves at an image URL: a.png carries a workflow, b.png a
\* parameters text that is no JSON, x.png no text field, anything else is
\* no image
ServedImage(url) ==
  IF EndsWith(url, <<"a", ".", "p", "n", "g">>)
  THEN [decodable |-> TRUE,
        info |-> [parameters |-> NoField, workflow |-> Field(TextObject)]]
  ELSE IF EndsWith(url, <<"b", ".", "p", "n", "g">>)
  THEN [decodable |-> TRUE,
        info |-> [parameters |-> Field(TextSteps), workflow |-> NoField]]
  ELSE IF EndsWith(url, <<"x", ".", "p", "n", "g">>)
  THEN [decodable |-> TRUE,
        info |-> [parameters |-> NoField, workflow |-> NoField]]
  ELSE CorruptImage

\* Image.open on a file of the image directory: the image that was served,
\* and for a file cut short either that image's header or a failure
OpenedImages(file) ==
  IF file.whole THEN {ServedImage(file.doc.s)}
  ELSE {ServedImage(file.doc.s), CorruptImage}

\* process_images_for_workflows, the listing: image_files are the files of
\* image_dir with an image extension, in the arbitrary order of os.listdir
ListImageFiles ==
  /\ pc = "crawl_returned"
  /\ pending' = SetToBag({f \in DOMAIN fs : IsWorkflowImage(f)})
  /\ pc' = "workflows"
  /\ UNCHANGED <<fs, example_pages, page_i, image_urls, attempts, gets,
                 downloaded_images, sleeps, webFrame>>

\* one turn of "for image_path in image_files": the workflow is extracted
\* and, if it is truthy, save_workflow_as_json writes it; every exception is
\* caught inside the two calls
ProcessImage ==
  /\ pc = "workflows"
  /\ \E f \in BagToSet(pending) :
       \E img \in OpenedImages(fs[f]) :
         \E workflow_data \in {ExtractWorkflowFromImageComfyui(img).val} :
           /\ pending' = pending (-) SetToBag({f})
           /\ IF Truthy(workflow_data)
              THEN \E outcome \in WriteOutcomes :
                     persistLog' =
                       Append(persistLog, [path |-> WorkflowName(f),
                                           doc |-> workflow_data,
                                           outcome |-> outcome])
              ELSE UNCHANGED persistLog
  /\ UNCHANGED <<pc, exc, exitCode, fs, reqs, treeFrame, stack, ret,
                 extractVars, site, example_pages, page_i, image_urls,
                 attempts, gets, downloaded_images, sleeps, civVars>>

\* the script has run to its last statement: the interpreter ends the
\* process with status 0
MainExit ==
  /\ pc = "workflows"
  /\ BagToSet(pending) = {}
  /\ pc' = "exited"
  /\ exitCode' = 0
  /\ UNCHANGED <<exc, fs, reqs, persistLog, treeFrame, stack, ret,
                 extractVars, webVars, civVars>>

\* the answers of a sub-page in the script run: a failure, two img tags of
\* which one shows an image under the file name of an image of the root
\* page, or one such img tag and an anchor to another image
MainPageContents ==
  {FailedPage,
   [status |-> 200, imgs |-> <<PageSrcs[1], PageSrcs[2]>>, links |-> <<>>],
   [status |-> 200, imgs |-> <<PageSrcs[2]>>, links |-> <<PageSrcs[1]>>]}

\* the sites of the script run
MainSites ==
  {[root |-> r, pages |-> <<>>] : r \in FailedRoots}
  \cup UNION {{[root |-> [status |-> 200, links |-> l], pages |-> pg] :
                 pg \in [Range(ExamplePages(base_url, l)) -> MainPageContents]} :
              l \in ListsOf(RootHrefs, MaxMainLinks)}

\* the file names under which the images of the site are saved
SaveNamesOf(urls) == {SaveName(u) : u \in urls} \ {<<>>}

\* the image directories a first run leaves behind when every download
\* succeeded: one file for each save name, holding the image of a URI of
\* that name
FirstRunDirs(urls) ==
  {dir \in [SaveNamesOf(urls) -> {FileOf(PyStr(u)) : u \in urls}] :
     \A f \in DOMAIN dir : SaveName(dir[f].doc.s) = f}

InitWebMain ==
  /\ pc = "crawl_images"
  /\ exc = NoExc
  /\ exitCode = -1
  /\ reqs = <<>>
  /\ persistLog = <<>>
  /\ TreeAtRest
  /\ impl = "comfyui_crawler"
  /\ image = CorruptImage
  /\ result = NoResult
  /\ site \in MainSites
  /\ fs \in {EmptyDir} \cup FirstRunDirs(DiscoveredUris)
  /\ example_pages = <<>>
  /\ page_i = 1
  /\ image_urls = <<>>
  /\ pending = EmptyBag
  /\ attempts = EmptyBag
  /\ gets = EmptyBag
  /\ downloaded_images = EmptyBag
  /\ sleeps = 0
  /\ CivAtRest

NextWebMain ==
  \/ NextWeb
  \/ ListImageFiles
  \/ ProcessImage
  \/ MainExit

SpecWebMain == InitWebMain /\ [][NextWebMain]_vars

\* C16: a run whose root-page fetch failed, by a transport error or by a
\* non-success status, ends as a failed run: the process does not exit with
\* status 0.
C16_RootFailureFailsRun ==
  (pc = "exited" /\ site.root.status # 200) => exitCode # 0

\* C17: a pause separates any two consecutive HTTP requests of a run: every
\* request but the latest has been followed by a time.sleep, so the
\* requests sent never outnumber the pauses taken by more than one.
C17_PauseBetweenRequests == BagCardinality(gets) <= sleeps + 1

\* the URLs of the pages the crawl fetches: the root page and its sub-pages
PageUrls == {base_url} \cup DOMAIN site.pages

\* every image URI of the site has a file at its save path, as when a
\* complete first run over the same site filled the directory
AllDestinationsExist == SaveNamesOf(DiscoveredUris) \subseteq DOMAIN fs

\* C19: download_image is a no-op on an existing destination: a call for a
\* URI whose save path exists sends no GET, leaves the directory as it is
\* and returns the path, which crawl_images adds to downloaded_images; and
\* a run over a site whose images all have their files already, as a
\* second run into the directory of the first has, changes no file and
\* sends no GET for an image.
C19_ExistingDestinationIsNoOp ==
  [][/\ \A u \in BagToSet(attempts') :
          (/\ CopiesIn(u, attempts') > CopiesIn(u, attempts)
           /\ (SaveName(u) = <<>> \/ SaveName(u) \in DOMAIN fs))
            => /\ gets' = gets
               /\ fs' = fs
               /\ CopiesIn(SaveName(u), downloaded_images')
                    = CopiesIn(SaveName(u), downloaded_images) + 1
     /\ (\/ fs' # fs
         \/ \E u \in BagToSet(gets') \ PageUrls :
              CopiesIn(u, gets') > CopiesIn(u, gets))
          => ~AllDestinationsExist]_vars

\* a second run has returned: it attempted the images of the site, two or
\* more under different file names, sent no GET for any of them and
\* returned a path for each
C19_Witness ==
  /\ pc = "crawl_returned"
  /\ fs \in FirstRunDirs(DiscoveredUris)
  /\ Cardinality(SaveNamesOf(BagToSet(attempts))) >= 2
  /\ \A u \in BagToSet(attempts) : CopiesIn(u, gets) = 0
  /\ BagCardinality(downloaded_images) = BagCardinality(attempts)

(***************************************************************************)
(* The model search of civitai_image_search.py                             *)
(***************************************************************************)

\* sub in s
Contains(s, sub) ==
  \E k \in 1..(Len(s) - Len(sub) + 1) : SubSeq(s, k, k + Len(sub) - 1) = sub

\* the most files the answered model lists
MaxFiles == 2

\* values of CIVITAI_API_KEY: unset, set to the empty string, set to a token
Token == <<"k">>
Environs == {PyNone, PyStr(<<>>), PyStr(Token)}

\* the command lines: --model_id given or not, --download given or not
ModelIds == {0, 7}
ArgsSet == {[model_id |-> m, download |-> d] : m \in ModelIds, d \in BOOLEAN}

\* the downloadUrl of a listed file: none, a URL of the download API, or a
\* URL elsewhere
ApiDownloadMarker ==
  <<"c", "i", "v", "i", "t", "a", "i", ".", "c", "o", "m", "/", "a",
    "p", "i", "/", "d", "o", "w", "n", "l", "o", "a", "d">>
ApiDownloadUrl ==
  <<"h", "t", "t", "p", "s", ":", "/", "/", "c", "i", "v", "i", "t",
    "a", "i", ".", "c", "o", "m", "/", "a", "p", "i", "/", "d", "o",
    "w", "n", "l", "o", "a", "d", "/", "m", "o", "d", "e", "l", "s",
    "/", "1">>
OtherDownloadUrl ==
  <<"h", "t", "t", "p", "s", ":", "/", "/", "c", ".", "d", "n", "/",
    "m", ".", "b", "i", "n">>
DownloadUrls == {PyNone, PyStr(ApiDownloadUrl), PyStr(OtherDownloadUrl)}

FileName == <<"m", ".", "b", "i", "n">>
ModelFiles == {[name |-> FileName, downloadUrl |-> u] : u \in DownloadUrls}

\* the answered model: its type and the files of its version
ModelTypes == {<<"L", "O", "R", "A">>, <<"V", "A", "E">>}
Models ==
  {[type |-> t, files |-> f] :
     t \in ModelTypes,
     f \in UNION {[1..m -> ModelFiles] : m \in 0..MaxFiles}}

\* display_results: the sub-directory of a model type
TypeDir(model_type) ==
  CASE model_type = <<"C", "h", "e", "c", "k", "p", "o", "i", "n", "t">> ->
         <<"c", "h", "e", "c", "k", "p", "o", "i", "n", "t", "s">>
    [] model_type = <<"L", "O", "R", "A">> -> <<"l", "o", "r", "a", "s">>
    [] OTHER -> <<"o", "t", "h", "e", "r">>

\* headers = {}; if api_key: headers["Authorization"] = f"Bearer {api_key}"
NoHeaders == [authorization |-> PyNone]
BearerPrefix == <<"B", "e", "a", "r", "e", "r", " ">>
AuthHeaders(key) ==
  IF Truthy(key) THEN [authorization |-> PyStr(BearerPrefix \o key.s)]
  ELSE NoHeaders

\* get_api_key: the process exits with status 1 when the variable is unset
\* or empty
get_api_key(env) ==
  IF ~Truthy(env) THEN [exits |-> TRUE, code |-> 1, key |-> env]
  ELSE [exits |-> FALSE, code |-> 0, key |-> env]

\* a request as requests.get sends it
Request(kind, headers) == [kind |-> kind, headers |-> headers]

civFrame == <<exc, fs, persistLog, tree, file_type, stack, ret, extractVars,
              webVars, environ, args>>

\* main up to the branch on --model_id: the arguments are parsed and
\* get_api_key is called
MainGetApiKey ==
  /\ pc = "civitai_main"
  /\ LET k == get_api_key(environ)
     IN  IF k.exits
         THEN /\ pc' = "exited"
              /\ exitCode' = k.code
              /\ UNCHANGED api_key
         ELSE /\ api_key' = k.key
              /\ pc' = IF args.model_id # 0 THEN "get_model_versions"
                       ELSE "search_models"
              /\ UNCHANGED exitCode
  /\ UNCHANGED <<reqs, results, file_k, civFrame>>

\* main, --model_id: get_model_versions(args.model_id, api_key); without an
\* answer the process exits with status 0
GetModelVersions ==
  /\ pc = "get_model_versions"
  /\ reqs' = Append(reqs, Request("model", AuthHeaders(api_key)))
  /\ \/ /\ pc' = "exited"
        /\ exitCode' = 0
        /\ UNCHANGED results
     \/ /\ results' \in Models
        /\ pc' = "display_results"
        /\ UNCHANGED exitCode
  /\ UNCHANGED <<api_key, file_k, civFrame>>

\* main, no --model_id: search_models(...); a failed request ends the
\* process with status 1
SearchModels ==
  /\ pc = "search_models"
  /\ reqs' = Append(reqs, Request("search", AuthHeaders(api_key)))
  /\ \/ /\ pc' = "exited"
        /\ exitCode' = 1
        /\ UNCHANGED results
     \/ /\ results' \in Models
        /\ pc' = "display_results"
        /\ UNCHANGED exitCode
  /\ UNCHANGED <<api_key, file_k, civFrame>>

\* download_model_file past a successful GET: the file is written, or
\* open() raises OSError, which no handler catches
ModelFileOutcomes == {"saved", "request_error", "os_error"}

\* display_results, one file: with --download the user is asked, and a
\* chosen file whose downloadUrl is one of the download API goes to
\* download_model_file(download_url, model_dir, file_name)
DisplayFile ==
  /\ pc = "display_results"
  /\ file_k <= Len(results.files)
  /\ LET file == results.files[file_k]
         download_url == file.downloadUrl
         path == TypeDir(results.type) \o <<"/">> \o file.name
     IN  \E download_choice \in {"y", "n"} :
           IF /\ args.download
              /\ download_choice = "y"
              /\ Truthy(download_url)
              /\ Contains(download_url.s, ApiDownloadMarker)
           THEN \E outcome \in ModelFileOutcomes :
                  /\ reqs' = Append(reqs, Request("download", NoHeaders))
                  /\ fs' = IF outcome = "saved"
                           THEN WriteFile(fs, path, FileOf(download_url))
                           ELSE fs
                  /\ IF outcome = "os_error"
                     THEN /\ exc' = [type |-> "OSError",
                                     at |-> "download_model_file",
                                     path |-> path, status |-> 200]
                          /\ pc' = "exited"
                          /\ exitCode' = 1
                          /\ UNCHANGED file_k
                     ELSE /\ file_k' = file_k + 1
                          /\ UNCHANGED <<pc, exc, exitCode>>
           ELSE /\ file_k' = file_k + 1
                /\ UNCHANGED <<pc, exc, exitCode, reqs, fs>>
  /\ UNCHANGED <<persistLog, tree, file_type, stack, ret, extractVars, webVars,
                 environ, args, api_key, results>>

\* display_results returns and main ends: sys.exit(0) after --model_id, the
\* end of main otherwise
MainReturn ==
  /\ pc = "display_results"
  /\ file_k > Len(results.files)
  /\ pc' = "exited"
  /\ exitCode' = 0
  /\ UNCHANGED <<reqs, api_key, results, file_k, civFrame>>

InitCiv ==
  /\ pc = "civitai_main"
  /\ exc = NoExc
  /\ exitCode = -1
  /\ fs = EmptyDir
  /\ reqs = <<>>
  /\ persistLog = <<>>
  /\ TreeAtRest
  /\ impl = "github_workflow_crawler"
  /\ image = CorruptImage
  /\ result = NoResult
  /\ WebAtRest
  /\ environ \in Environs
  /\ args \in ArgsSet
  /\ api_key = PyNone
  /\ results = NoResults
  /\ file_k = 1

NextCiv ==
  \/ MainGetApiKey
  \/ GetModelVersions
  \/ SearchModels
  \/ DisplayFile
  \/ MainReturn

SpecCiv == InitCiv /\ [][NextCiv]_vars

\* C10: a missing API credential neither crashes nor ends the program: a
\* run without a token goes on to send its requests, every request of such
\* a run is anonymous, and every request of a run with a token carries the
\* bearer Authorization header
C10_MissingCredentialIsNotFatal ==
  /\ ~Truthy(environ) /\ pc = "exited" => reqs # <<>>
  /\ \A k \in DOMAIN reqs :
       reqs[k].headers = IF Truthy(environ)
                         THEN [authorization |-> PyStr(BearerPrefix \o environ.s)]
                         ELSE NoHeaders

(***************************************************************************)
(* github_workflow_crawler: parse_github_url and the listing request that  *)
(* get_repo_contents builds from what it returns                           *)
(***************************************************************************)

GITHUB_API_URL == <<"h", "t", "t", "p", "s", ":", "/", "/", "a", "p", "i", ".", "g", "i", "t", "h", "u", "b", ".", "c", "o", "m">>

\* re: the positions after an optional group (?:a|b)? that is tried at the
\* positions starts
AfterOptional(s, starts, lits) ==
  starts \cup UNION {{i + Len(l) : l \in {m \in lits : HasLit(s, i, m)}} :
                       i \in starts}

\* the positions after (?:https?://)?(?:www\.)?github\.com/ matched from the
\* start of url, as re.match does
GithubHost == <<"g", "i", "t", "h", "u", "b", ".", "c", "o", "m", "/">>
AfterHost(url) ==
  {i + Len(GithubHost) :
     i \in {j \in AfterOptional(url,
                     AfterOptional(url, {1}, {<<"h", "t", "t", "p", ":", "/", "/">>,
                                              <<"h", "t", "t", "p", "s", ":", "/", "/">>}),
                     {<<"w", "w", "w", ".">>}) :
              HasLit(url, j, GithubHost)}}

\* [^/]+ from position i: the position after the longest run of characters
\* other than "/"
SegmentEnd(s, i) == FindAny(s, i, {"/"})

\* basic_pattern: ([^/]+)/([^/]+) after the host; the matches, none or one
BasicMatch(url) ==
  UNION {Bind(SegmentEnd(url, h), LAMBDA e1 :
         Bind(SegmentEnd(url, e1 + 1), LAMBDA e2 :
           IF e1 > h /\ e1 <= Len(url) /\ e2 > e1 + 1
           THEN {[owner |-> SubSeq(url, h, e1 - 1),
                  repo |-> SubSeq(url, e1 + 1, e2 - 1),
                  stop |-> e2]}
           ELSE {})) : h \in AfterHost(url)}

\* tree_pattern: [^/]+/[^/]+/tree/([^/]+)/(.+) after the host; "." matches
\* any character but a newline
TreeLit == <<"/", "t", "r", "e", "e", "/">>
TreeMatch(url) ==
  UNION {Bind(SegmentEnd(url, m.stop + Len(TreeLit)), LAMBDA e3 :
         Bind(FindAny(url, e3 + 1, {"\n"}), LAMBDA e4 :
           IF /\ HasLit(url, m.stop, TreeLit)
              /\ e3 > m.stop + Len(TreeLit)
              /\ e3 <= Len(url)
              /\ e4 > e3 + 1
           THEN {[branch |-> SubSeq(url, m.stop + Len(TreeLit), e3 - 1),
                  path |-> SubSeq(url, e3 + 1, e4 - 1)]}
           ELSE {})) : m \in BasicMatch(url)}

\* parse_github_url(url): ValueError without a basic match, else the tuple
\* (owner, repo, path), held as a list; the branch of a tree match is
\* logged and dropped
parse_github_url(url) ==
  IF BasicMatch(url) = {} THEN Raised("ValueError")
  ELSE Bind(CHOOSE m \in BasicMatch(url) : TRUE, LAMBDA m :
         Returned(PyList(
           <<PyStr(m.owner),
             PyStr(IF TreeMatch(url) = {} THEN m.repo
                   ELSE SplitSlash(m.repo)[1]),
             PyStr(IF TreeMatch(url) = {} THEN <<>>
                   ELSE (CHOOSE t \in TreeMatch(url) : TRUE).path)>>)))

\* get_repo_contents: the URL of the listing request
ListingUrl(owner, repo, path) ==
  GITHUB_API_URL \o <<"/", "r", "e", "p", "o", "s", "/">> \o owner
  \o <<"/">> \o repo \o <<"/", "c", "o", "n", "t", "e", "n", "t", "s">>
  \o (IF path # <<>> THEN <<"/">> \o path ELSE <<>>)

\* the URLs given on the command line: with and without a scheme and www.,
\* on the hosted-tree origin and on another host, with every shape of path
UrlSchemes == {<<>>, <<"h", "t", "t", "p", ":", "/", "/">>, <<"h", "t", "t", "p", "s", ":", "/", "/">>, <<"f", "t", "p", ":", "/", "/">>}
UrlWwws == {<<>>, <<"w", "w", "w", ".">>}
UrlHosts == {<<"g", "i", "t", "h", "u", "b", ".", "c", "o", "m">>, <<"g", "i", "t", "l", "a", "b", ".", "c", "o", "m">>}
UrlTails ==
  {<<>>,
   <<"/", "o">>,
   <<"/", "o", "/", "r">>,
   <<"/", "o", "/", "r", "/">>,
   <<"/", "o", "/", "r", "/", "t", "r", "e", "e", "/", "v", "1">>,
   <<"/", "o", "/", "r", "/", "t", "r", "e", "e", "/", "v", "1", "/">>,
   <<"/", "o", "/", "r", "/", "t", "r", "e", "e", "/", "v", "1", "/", "p">>,
   <<"/", "o", "/", "r", "/", "t", "r", "e", "e", "/", "v", "1", "/", "p", "/", "q">>,
   <<"/", "o", "/", "r", "/", "b", "l", "o", "b", "/", "v", "1", "/", "f">>}
GithubUrls ==
  {s \o w \o h \o t : s \in UrlSchemes, w \in UrlWwws, h \in UrlHosts,
                      t \in UrlTails}

\* main, first statement: parse_github_url(args.url) outside any try; a
\* ValueError ends the process with status 1
ParseGithubUrl ==
  /\ pc = "main"
  /\ \E r \in {parse_github_url(args.url)} :
       /\ result' = r
       /\ IF r.raised
          THEN /\ pc' = "crashed"
               /\ exitCode' = 1
               /\ exc' = [type |-> r.exc, at |-> "parse_github_url",
                          path |-> <<>>, status |-> 0]
          ELSE /\ pc' = "parsed"
               /\ UNCHANGED <<exc, exitCode>>
  /\ UNCHANGED <<fs, reqs, persistLog, treeFrame, stack, ret, impl, image,
                 webVars, civVars>>

\* main calls process_directory with the parsed triple, whose first
\* statement sends the listing request of get_repo_contents
RequestRootListing ==
  /\ pc = "parsed"
  /\ reqs' = Append(reqs, [kind |-> "list",
                           url |-> ListingUrl(result.val.v[1].s,
                                              result.val.v[2].s,
                                              result.val.v[3].s)])
  /\ pc' = "listed"
  /\ UNCHANGED <<exc, exitCode, fs, persistLog, treeFrame, stack, ret,
                 extractVars, webVars, civVars>>

InitParse ==
  /\ pc = "main"
  /\ exc = NoExc
  /\ exitCode = -1
  /\ fs = EmptyDir
  /\ reqs = <<>>
  /\ persistLog = <<>>
  /\ TreeAtRest
  /\ impl = "github_workflow_crawler"
  /\ image = CorruptImage
  /\ result = NoResult
  /\ WebAtRest
  /\ environ = PyNone
  /\ args \in {[url |-> u] : u \in GithubUrls}
  /\ api_key = PyNone
  /\ results = NoResults
  /\ file_k = 1

NextParse ==
  \/ ParseGithubUrl
  \/ RequestRootListing

SpecParse == InitParse /\ [][NextParse]_vars

\* the reading of a URL that C18 describes: the path segments that follow
\* the origin, none if the URL is not of the hosted-tree origin
UrlSegments(url) ==
  IF AfterHost(url) = {} THEN <<>>
  ELSE SplitSlash(SubSeq(url, CHOOSE h \in AfterHost(url) : TRUE, Len(url)))

\* the URL names an owner and a repository on the hosted-tree origin
IsSourceUrl(url) ==
  /\ Len(UrlSegments(url)) >= 2
  /\ UrlSegments(url)[1] # <<>>
  /\ UrlSegments(url)[2] # <<>>

\* the URL has a tree/<branch> segment
HasBranch(url) ==
  /\ IsSourceUrl(url)
  /\ Len(UrlSegments(url)) >= 4
  /\ UrlSegments(url)[3] = <<"t", "r", "e", "e">>
  /\ UrlSegments(url)[4] # <<>>

\* the <path> of tree/<branch>/<path>, empty if there is none
Subpath(url) ==
  IF HasBranch(url)
  THEN JoinSlash(SubSeq(UrlSegments(url), 5, Len(UrlSegments(url))))
  ELSE <<>>

\* C18: parse_github_url takes owner and repository from the first two
\* path segments; a URL with tree/<branch> yields that branch, with or
\* without a subpath, as part of the returned descriptor, and the listing
\* request is made for that branch; a URL with tree/<branch>/<path> yields
\* exactly <path>; an input that matches no origin pattern fails with
\* ValueError before any request is sent.
C18_ParseGithubUrl ==
  pc \in {"parsed", "listed", "crashed"} =>
    IF ~IsSourceUrl(args.url)
    THEN /\ pc = "crashed"
         /\ result = Raised("ValueError")
         /\ reqs = <<>>
    ELSE /\ ~result.raised
         /\ result.val.v[1] = PyStr(UrlSegments(args.url)[1])
         /\ result.val.v[2] = PyStr(UrlSegments(args.url)[2])
         /\ Subpath(args.url) # <<>> =>
              result.val.v[3] = PyStr(Subpath(args.url))
         /\ HasBranch(args.url) =>
              /\ PyStr(UrlSegments(args.url)[4]) \in Range(result.val.v)
              /\ pc = "listed" =>
                   Contains(SubSeq(reqs[1].url, Len(GITHUB_API_URL) + 1,
                                   Len(reqs[1].url)),
                            UrlSegments(args.url)[4])

=============================================================================
